---- MODULE Spec2Model ----
(***************************************************************************)
(* Model of snakemake/caching/hash.py: ProvenanceHashMap, the memoised,    *)
(* recursive ("blockchain") provenance hash of a job of a workflow DAG.    *)
(*                                                                         *)
(* Two independent worlds (1 and 2) are modelled side by side.  Each world *)
(* has its own workflow (jobs, dependencies, files, flags), its own module *)
(* global __version__ and its own ProvenanceHashMap instance.  Properties  *)
(* of one engine are stated per world; properties that compare two runs    *)
(* (determinism, sensitivity, exclusion) compare world 1 with world 2.     *)
(***************************************************************************)
EXTENDS Integers, Sequences, FiniteSets, TLC

(***************************************************************************)
(* Text and bytes.  A str or bytes value is a sequence of integers: an     *)
(* ASCII character is its code (>= 0).  The hex text of a SHA-256 digest   *)
(* is the bracketed block  HexOpen, <the bytes fed to the hash>, HexClose: *)
(* the digest is an injective function of the bytes fed (no collisions),   *)
(* and no character of a text is a bracket.                                *)
(***************************************************************************)
Str(codes) == codes

\* str.encode(): the UTF-8 bytes of an ASCII text are its character codes.
encode(s) == s

\* hashlib.sha256(): a fresh hash object has been fed nothing.
sha256 == <<>>

\* h.update(b): the hash object has been fed b after what it was fed before.
update(h, b) == h \o b

HexOpen == 0 - 1

HexClose == 0 - 2

\* h.hexdigest(): the hex text of the digest of everything fed to h.
hexdigest(h) == <<HexOpen>> \o h \o <<HexClose>>

\* F applied to the value of e, which is computed once.
Let(e, F(_)) == CHOOSE y \in {F(x) : x \in {e}} : TRUE

(***************************************************************************)
(* The order of str values: Python compares strings lexicographically.     *)
(* Digest texts are ordered by the same rule on their blocks, which is a   *)
(* fixed total order on digests.                                           *)
(***************************************************************************)
RECURSIVE StrLess(_, _)
StrLess(s, u) ==
    IF u = <<>> THEN FALSE
    ELSE IF s = <<>> THEN TRUE
    ELSE IF Head(s) = Head(u) THEN StrLess(Tail(s), Tail(u))
    ELSE Head(s) < Head(u)

\* Insert string x into the ascending sequence of strings srt.
RECURSIVE Insert(_, _)
Insert(x, srt) ==
    IF srt = <<>> THEN <<x>>
    ELSE IF StrLess(Head(srt), x) THEN <<Head(srt)>> \o Insert(x, Tail(srt))
    ELSE <<x>> \o srt

RECURSIVE SortedStrs(_)
SortedStrs(xs) ==
    IF xs = <<>> THEN <<>>
    ELSE Let(SortedStrs(Tail(xs)), LAMBDA srt : Insert(Head(xs), srt))

\* The iteration of a sequence of strings with no sorting (used by a mutant).
UnsortedStrs(xs) == xs

\* sorted(<generator of dependency digests>), line 90.
sorted(xs) == SortedStrs(xs)

(***************************************************************************)
(* Python values of job.params and json.dumps(value, sort_keys=True).      *)
(* A value is an int (n), a str (s), a list or a tuple of ints (items), a  *)
(* dict from str keys to ints (pairs, in insertion order) or an object     *)
(* that json cannot serialise.                                             *)
(***************************************************************************)
PyInt(n) == [ty |-> "int", n |-> n, s |-> <<>>, items |-> <<>>, pairs |-> <<>>]

PyStr(s) == [ty |-> "str", n |-> 0, s |-> s, items |-> <<>>, pairs |-> <<>>]

PyList(xs) == [ty |-> "list", n |-> 0, s |-> <<>>, items |-> xs, pairs |-> <<>>]

PyTuple(xs) == [ty |-> "tuple", n |-> 0, s |-> <<>>, items |-> xs, pairs |-> <<>>]

PyDict(ps) == [ty |-> "dict", n |-> 0, s |-> <<>>, items |-> <<>>, pairs |-> ps]

PyObject == [ty |-> "object", n |-> 0, s |-> <<>>, items |-> <<>>, pairs |-> <<>>]

\* Python's ==: dicts are equal whatever their insertion order.
PyEq(u, v) ==
    IF u.ty = "dict" /\ v.ty = "dict"
    THEN {u.pairs[i] : i \in DOMAIN u.pairs} = {v.pairs[i] : i \in DOMAIN v.pairs}
    ELSE u = v

\* The decimal text of a natural number.
RECURSIVE Digits(_)
Digits(n) ==
    IF n < 10 THEN Str(<<48 + n>>)
    ELSE Digits(n \div 10) \o Str(<<48 + (n % 10)>>)

\* ", ".join(texts)
RECURSIVE Join(_)
Join(texts) ==
    IF texts = <<>> THEN <<>>
    ELSE IF Len(texts) = 1 THEN texts[1]
    ELSE texts[1] \o Str(<<44, 32>>) \o Join(Tail(texts))

\* Items (records with a key k) in ascending order of their keys.
RECURSIVE InsertItem(_, _)
InsertItem(x, srt) ==
    IF srt = <<>> THEN <<x>>
    ELSE IF StrLess(Head(srt).k, x.k) THEN <<Head(srt)>> \o InsertItem(x, Tail(srt))
    ELSE <<x>> \o srt

RECURSIVE SortedItems(_)
SortedItems(items) ==
    IF items = <<>> THEN <<>>
    ELSE Let(SortedItems(Tail(items)), LAMBDA srt : InsertItem(Head(items), srt))

\* The items in the order they are iterated, not sorted (used by a mutant).
UnsortedItems(items) == items

\* sorted(job.params._allitems()), line 66: (key, value) tuples, keys distinct.
sortedParams(items) == SortedItems(items)

\* The pairs of a dict as json.dumps writes them with sort_keys=True.
dictItems(ps) == SortedItems(ps)

\* json.dumps(value, sort_keys=True), line 69: ok is FALSE for the TypeError.
json_dumps(v) ==
    CASE v.ty = "int" -> [ok |-> TRUE, text |-> Digits(v.n)]
      [] v.ty = "str" -> [ok |-> TRUE, text |-> Str(<<34>>) \o v.s \o Str(<<34>>)]
      [] v.ty \in {"list", "tuple"} ->
            [ok |-> TRUE,
             text |-> Str(<<91>>)
                      \o Join([i \in DOMAIN v.items |-> Digits(v.items[i])])
                      \o Str(<<93>>)]
      [] v.ty = "dict" ->
            [ok |-> TRUE,
             text |-> LET ps == dictItems(v.pairs) IN
                      Str(<<123>>)
                      \o Join([i \in DOMAIN ps |->
                                 Str(<<34>>) \o ps[i].k \o Str(<<34, 58, 32>>)
                                 \o Digits(ps[i].v)])
                      \o Str(<<125>>)]
      [] OTHER -> [ok |-> FALSE, text |-> <<>>]

(***************************************************************************)
(* The workflow of a world: jobs, the DAG's dependencies, the files on     *)
(* disk and the workflow's flags.  All of it is read-only to the engine.   *)
(***************************************************************************)
Worlds == {1, 2}

Jobs == {"A", "B", "C", "D"}

VARIABLES
    jobs,          \* jobs[w][j]: the fields of job j that hash.py reads
    dependencies,  \* dependencies[w][j]: job.dag.dependencies[job], upstream job -> its files
    files,         \* files[w][f]: whether file f exists, and its bytes
    workflow,      \* workflow[w]: job.dag.workflow (use_conda, use_singularity)
    version,       \* version[w]: the module global __version__
    hashes,        \* hashes[w]: ProvenanceHashMap._hashes, job -> hex digest
    result,        \* the latest call: its world, its job, what it returned or raised
    stack,         \* stack[t]: the frames of _get_provenance_hash that thread t is in
    outcome,       \* outcome[t]: what the latest call of thread t returned or raised
    calls,         \* calls[t]: the calls of get_provenance_hash thread t has made
    called,        \* called[t]: the job of the latest call of thread t
    begun,         \* begun[t][j]: how often the latest call of t went past the memo check for j
    writes         \* the memo writes so far: thread, job, value written

cfgvars == <<jobs, dependencies, files, workflow, version>>

thrvars == <<stack, outcome, calls, called, begun, writes>>

vars == <<jobs, dependencies, files, workflow, version, hashes, result,
          stack, outcome, calls, called, begun, writes>>

\* The threads that use the engine of world 1.
Threads == {1, 2}

\* The only output file of job j in the base workflow.
OutFile(j) ==
    CASE j = "A" -> "a.out" [] j = "B" -> "b.out" [] j = "C" -> "c.out" [] OTHER -> "d.out"

\* The diamond A -> B, A -> C, B -> D, C -> D: upstream job -> files it supplies.
BaseDependencies ==
    [j \in Jobs |->
        CASE j = "A" -> [u \in {} |-> {}]
          [] j \in {"B", "C"} -> [u \in {"A"} |-> {"a.out"}]
          [] OTHER -> [u \in {"B", "C"} |-> {OutFile(u)}]]

\* rule.shellcmd of job j in the base workflow: the one letter a, b, c or d.
BaseCmd(j) ==
    CASE j = "A" -> Str(<<97>>) [] j = "B" -> Str(<<98>>)
      [] j = "C" -> Str(<<99>>) [] OTHER -> Str(<<100>>)

\* The number of parameters of a job of the base workflow.
NParams == 2

\* The parameters a job can have, in the order job.params._allitems() yields them.
BaseParams ==
    << [k |-> Str(<<113>>), v |-> PyList(<<1, 2>>)],
       [k |-> Str(<<112>>), v |-> PyInt(1)],
       [k |-> Str(<<110>>), v |-> PyStr(Str(<<120>>))] >>

\* A shell job with one output, params q=[1, 2] and p=1 (iterated in that
\* order), a conda environment that has a container image, and a container
\* image of its own.  Its inputs are the files its upstream jobs supply.
BaseJob(j) ==
    [name |-> j,
     threads |-> 1,
     output |-> <<OutFile(j)>>,
     input |-> CASE j = "A" -> <<>>
                 [] j \in {"B", "C"} -> <<"a.out">>
                 [] OTHER -> <<"b.out", "c.out">>,
     is_shell |-> TRUE,
     is_script |-> FALSE,
     is_wrapper |-> FALSE,
     shellcmd |-> BaseCmd(j),
     source |-> Str(<<115>>) \o BaseCmd(j),
     params |-> SubSeq(BaseParams, 1, NParams),
     conda_env |-> [present |-> TRUE,
                    singularity_img_url |-> Str(<<105>>),
                    content |-> Str(<<101>>)],
     singularity_img_url |-> Str(<<117>>)]

FileNames == {"a.out", "b.out", "c.out", "d.out", "x.txt", "y.txt"}

\* a.out, b.out and x.txt exist; c.out, d.out and y.txt do not.
BaseFiles ==
    [f \in FileNames |->
        IF f \in {"a.out", "b.out", "x.txt"}
        THEN [exists |-> TRUE, data |-> Str(<<49>>)]
        ELSE [exists |-> FALSE, data |-> <<>>]]

Base ==
    [jobs |-> [j \in Jobs |-> BaseJob(j)],
     dependencies |-> BaseDependencies,
     files |-> BaseFiles,
     workflow |-> [use_conda |-> TRUE, use_singularity |-> TRUE],
     version |-> Str(<<48, 46, 49>>)]

(***************************************************************************)
(* Changes to a workflow.  The initial states apply them to the base       *)
(* workflow: world 1 is the base workflow with change m1, world 2 is       *)
(* world 1 with change m2.                                                 *)
(***************************************************************************)
Mod(op, j, f) == [op |-> op, j |-> j, f |-> f]

NoMod == Mod("none", "", "")

Reverse(xs) == [i \in 1..Len(xs) |-> xs[Len(xs) + 1 - i]]

SetParam(ps, key, val) ==
    [i \in DOMAIN ps |-> IF ps[i].k = key THEN [ps[i] EXCEPT !.v = val] ELSE ps[i]]

DictAB == << [k |-> Str(<<98>>), v |-> 1], [k |-> Str(<<97>>), v |-> 2] >>

\* The file names fs with name a replaced by name b.
Renamed(fs, a, b) == [i \in DOMAIN fs |-> IF fs[i] = a THEN b ELSE fs[i]]

\* File a is called b in the outputs and inputs of every job ...
RenameFile(js, a, b) ==
    [j \in DOMAIN js |-> [js[j] EXCEPT !.output = Renamed(@, a, b),
                                       !.input = Renamed(@, a, b)]]

\* ... and in the file sets that upstream jobs supply.
RenameSupplied(deps, a, b) ==
    [j \in DOMAIN deps |->
        [u \in DOMAIN deps[j] |-> {IF f = a THEN b ELSE f : f \in deps[j][u]}]]

\* The parameter of the job whose name sorts first.
FirstParam(job) == sortedParams(job.params)[1]

\* The parameters ps but for the one named key.
Without(ps, key) == SelectSeq(ps, LAMBDA p : p.k # key)

Apply(m, cfg) ==
    LET job == cfg.jobs[m.j] IN
    CASE m.op = "multi_output" ->
            [cfg EXCEPT !.jobs[m.j].output = Append(job.output, "extra.out")]
      [] m.op = "script" ->
            [cfg EXCEPT !.jobs[m.j].is_shell = FALSE, !.jobs[m.j].is_script = TRUE]
      [] m.op = "wrapper" ->
            [cfg EXCEPT !.jobs[m.j].is_shell = FALSE, !.jobs[m.j].is_wrapper = TRUE]
      [] m.op = "bad_param" ->
            [cfg EXCEPT !.jobs[m.j].params =
                Append(job.params, [k |-> Str(<<114>>), v |-> PyObject])]
      [] m.op = "dict_param" ->
            [cfg EXCEPT !.jobs[m.j].params =
                Append(job.params, [k |-> Str(<<111>>), v |-> PyDict(DictAB)])]
      [] m.op = "dict_order" ->
            [cfg EXCEPT !.jobs[m.j].params =
                SetParam(job.params, Str(<<111>>), PyDict(Reverse(DictAB)))]
      [] m.op = "ext_input" ->
            [cfg EXCEPT !.jobs[m.j].input = Append(job.input, m.f)]
      [] m.op = "text" ->
            [cfg EXCEPT !.jobs[m.j].shellcmd = job.shellcmd \o Str(<<33>>)]
      [] m.op = "source" ->
            [cfg EXCEPT !.jobs[m.j].source = job.source \o Str(<<33>>)]
      [] m.op = "param_value" ->
            [cfg EXCEPT !.jobs[m.j].params = SetParam(job.params, Str(<<112>>), PyInt(2))]
      [] m.op = "param_tuple" ->
            [cfg EXCEPT !.jobs[m.j].params =
                SetParam(job.params, Str(<<113>>), PyTuple(<<1, 2>>))]
      [] m.op = "param_order" ->
            [cfg EXCEPT !.jobs[m.j].params = Reverse(job.params)]
      [] m.op = "env_content" ->
            [cfg EXCEPT !.jobs[m.j].conda_env.content = Str(<<102>>)]
      [] m.op = "env_img" ->
            [cfg EXCEPT !.jobs[m.j].conda_env.singularity_img_url = Str(<<106>>)]
      [] m.op = "file_content" ->
            [cfg EXCEPT !.files[m.f] = [exists |-> TRUE, data |-> Str(<<50>>)]]
      [] m.op = "file_remove" ->
            [cfg EXCEPT !.files[m.f] = [exists |-> FALSE, data |-> <<>>]]
      [] m.op = "version" ->
            [cfg EXCEPT !.version = Str(<<48, 46, 50>>)]
      [] m.op = "no_output" ->
            [cfg EXCEPT !.jobs[m.j].output = <<>>]
      [] m.op = "threads" ->
            [cfg EXCEPT !.jobs[m.j].threads = job.threads + 7]
      [] m.op = "rename" ->
            [cfg EXCEPT !.jobs[m.j].name = "Z"]
      [] m.op = "rename_output" ->
            [cfg EXCEPT !.jobs = RenameFile(cfg.jobs, job.output[1], m.f),
                        !.dependencies = RenameSupplied(cfg.dependencies, job.output[1], m.f)]
      [] m.op = "move_input" ->
            [cfg EXCEPT !.jobs[m.j].input = Renamed(job.input, "x.txt", m.f),
                        !.files[m.f] = cfg.files["x.txt"]]
      [] m.op = "env_merge" ->
            [cfg EXCEPT !.jobs[m.j].conda_env.singularity_img_url = <<>>,
                        !.jobs[m.j].conda_env.content =
                            job.conda_env.singularity_img_url \o job.conda_env.content]
      [] m.op = "cmd_absorbs_param" ->
            [cfg EXCEPT !.jobs[m.j].shellcmd =
                            job.shellcmd \o FirstParam(job).k
                            \o json_dumps(FirstParam(job).v).text,
                        !.jobs[m.j].params = Without(job.params, FirstParam(job).k)]
      [] OTHER -> cfg

\* Changes that make a job fail, or that add what a later change varies.
Faults ==
    {Mod(op, j, "") : op \in {"multi_output", "script", "wrapper", "bad_param"}, j \in Jobs}
    \cup {Mod("ext_input", j, f) : j \in Jobs, f \in {"x.txt", "y.txt"}}

\* Changes of one determinant of one job, of one file or of the version tag.
Deltas ==
    {Mod(op, j, "") : op \in {"text", "param_value", "env_content"}, j \in Jobs}
    \cup {Mod(op, "A", "") : op \in {"param_tuple", "param_order", "env_img"}}
    \cup {Mod("file_content", "", "a.out"), Mod("file_remove", "", "a.out"),
          Mod("file_content", "", "c.out"), Mod("version", "", "")}

Scenarios ==
    {[m1 |-> NoMod, m2 |-> d] : d \in Deltas \cup {NoMod}}
    \cup {[m1 |-> f, m2 |-> NoMod] : f \in Faults}
    \cup {[m1 |-> Mod("ext_input", j, "x.txt"), m2 |-> d] :
            j \in Jobs, d \in {Mod("file_content", "", "x.txt"),
                               Mod("file_remove", "", "x.txt")}}
    \cup {[m1 |-> Mod("dict_param", "A", ""), m2 |-> Mod("dict_order", "A", "")],
          [m1 |-> Mod("script", "A", ""), m2 |-> Mod("source", "A", "")]}

(***************************************************************************)
(* hash.py.  The names bound in the module's namespace are those of its    *)
(* import statements (lines 7-10) and __version__ (line 13); evaluating    *)
(* any other global name raises NameError.                                 *)
(***************************************************************************)
ModuleNames == {"hashlib", "json", "Job", "__version__"}

\* The exception raised by evaluating `name(...)` and raising the result.
RaiseNamed(name) == IF name \in ModuleNames THEN name ELSE "NameError"

\* Evaluating the global `name`: "" when it is bound, else the exception.
Lookup(name) == IF name \in ModuleNames THEN "" ELSE "NameError"

\* What one call of _get_provenance_hash carries: the memo map and the
\* trace of what the call did so far.
Event(ev, job, f) == [ev |-> ev, job |-> job, f |-> f]

Log(st, ev, job, f) == [st EXCEPT !.trace = Append(@, Event(ev, job, f))]

Returns(st, val) == [st |-> st, ok |-> TRUE, val |-> val, exc |-> ""]

Raises(st, exc) == [st |-> st, ok |-> FALSE, val |-> <<>>, exc |-> exc]

\* A variant that never finds the job in the memo map (used by a mutant).
MemoNeverHit(memo, job) == FALSE

\* Line 38: job in self._hashes.
MemoHit(memo, job) == job \in DOMAIN memo

\* Line 41: len(job.output) > 1.
TooManyOutputs(job) == Len(job.output) > 1

\* A variant that hashes the command with the thread count filled in, as the
\* formatted shell command has it (used by a mutant).
HashDescriptorFormatted(job, h) ==
    [ok |-> TRUE, h |-> update(h, encode(job.shellcmd \o Digits(job.threads))), exc |-> ""]

\* Lines 51-63: the shell command, or the source of the script or wrapper.
\* script and wrapper are not names of the module.
HashDescriptor(job, h) ==
    IF job.is_shell
    THEN [ok |-> TRUE, h |-> update(h, encode(job.shellcmd)), exc |-> ""]
    ELSE IF job.is_script \/ job.is_wrapper
    THEN IF Lookup("script") = ""
         THEN [ok |-> TRUE, h |-> update(h, encode(job.source)), exc |-> ""]
         ELSE [ok |-> FALSE, h |-> h, exc |-> Lookup("script")]
    ELSE [ok |-> TRUE, h |-> h, exc |-> ""]

\* A variant that feeds the empty text for a value that json cannot
\* serialise (used by a mutant).
RECURSIVE FeedParamsLenient(_, _)
FeedParamsLenient(items, h) ==
    IF items = <<>> THEN [ok |-> TRUE, h |-> h, exc |-> ""]
    ELSE FeedParamsLenient(Tail(items),
                           update(update(h, encode(Head(items).k)),
                                  encode(json_dumps(Head(items).v).text)))

\* Lines 67-69 for the items in the given order.
RECURSIVE FeedParams(_, _)
FeedParams(items, h) ==
    IF items = <<>> THEN [ok |-> TRUE, h |-> h, exc |-> ""]
    ELSE LET h1 == update(h, encode(Head(items).k))
             js == json_dumps(Head(items).v)
         IN IF js.ok
            THEN FeedParams(Tail(items), update(h1, encode(js.text)))
            ELSE [ok |-> FALSE, h |-> h1, exc |-> "TypeError"]

\* Lines 65-69.
HashParams(job, h) ==
    Let(sortedParams(job.params), LAMBDA items : FeedParams(items, h))

\* A variant that takes every input for external (used by a mutant).
IsNeverInternal(deps, f) == FALSE

\* Lines 73-75: f is in the file set of some upstream job of the job.
IsInternal(deps, f) == \E u \in DOMAIN deps : f \in deps[u]

\* The builtin open(f, mode): the mode needs exactly one of r, w, a, x.
open(file, mode) ==
    IF Cardinality({i \in DOMAIN mode : mode[i] \in {"r", "w", "a", "x"}}) # 1
    THEN [ok |-> FALSE, exc |-> "ValueError", data |-> <<>>]
    ELSE IF ~file.exists
    THEN [ok |-> FALSE, exc |-> "FileNotFoundError", data |-> <<>>]
    ELSE [ok |-> TRUE, exc |-> "", data |-> file.data]

\* Line 76: the mode that hash.py passes to open.
OpenMode == <<"b">>

\* Lines 72-79 for the inputs fs: opened lists the files passed to open.
RECURSIVE FeedInputs(_, _, _, _, _)
FeedInputs(fs, deps, disk, h, opened) ==
    IF fs = <<>> THEN [ok |-> TRUE, h |-> h, exc |-> "", opened |-> opened]
    ELSE IF IsInternal(deps, Head(fs))
    THEN FeedInputs(Tail(fs), deps, disk, h, opened)
    ELSE LET o == open(disk[Head(fs)], OpenMode) IN
         IF o.ok
         THEN FeedInputs(Tail(fs), deps, disk, update(h, o.data), Append(opened, Head(fs)))
         ELSE [ok |-> FALSE, h |-> h, exc |-> o.exc, opened |-> Append(opened, Head(fs))]

\* A variant whose line 86 is an `if` of its own, not an `elif` (used by a mutant).
HashEnvBoth(wf, job, h) ==
    LET h1 == IF wf.use_conda /\ job.conda_env.present
              THEN update(IF wf.use_singularity /\ job.conda_env.singularity_img_url # <<>>
                          THEN update(h, encode(job.conda_env.singularity_img_url))
                          ELSE h,
                          encode(job.conda_env.content))
              ELSE h
    IN IF wf.use_singularity /\ job.singularity_img_url # <<>>
       THEN update(h1, encode(job.singularity_img_url))
       ELSE h1

\* Lines 81-87: the conda environment and container image in use.
HashEnv(wf, job, h) ==
    IF wf.use_conda /\ job.conda_env.present
    THEN LET h1 == IF wf.use_singularity /\ job.conda_env.singularity_img_url # <<>>
                   THEN update(h, encode(job.conda_env.singularity_img_url))
                   ELSE h
         IN update(h1, encode(job.conda_env.content))
    ELSE IF wf.use_singularity /\ job.singularity_img_url # <<>>
    THEN update(h, encode(job.singularity_img_url))
    ELSE h

\* A variant that feeds no upstream digest (used by a mutant).
FeedNone(ds, h) == h

\* Line 94 for each digest of ds in turn.
RECURSIVE FeedAll(_, _)
FeedAll(ds, h) ==
    IF ds = <<>> THEN h ELSE FeedAll(Tail(ds), update(h, encode(Head(ds))))

\* A variant that stores the hash of the digest text (used by a mutant).
StoreRehashed(st, job, val) ==
    Log([st EXCEPT !.hashes = [x \in DOMAIN st.hashes \cup {job} |->
                                  IF x = job THEN hexdigest(val) ELSE st.hashes[x]]],
        "store", job, "")

\* Lines 98-99: self._hashes[job] = provenance_hash.
Store(st, job, val) ==
    Log([st EXCEPT !.hashes = [x \in DOMAIN st.hashes \cup {job} |->
                                  IF x = job THEN val ELSE st.hashes[x]]],
        "store", job, "")

RECURSIVE LogOpens(_, _, _)
LogOpens(st, job, fs) ==
    IF fs = <<>> THEN st ELSE LogOpens(Log(st, "open", job, Head(fs)), job, Tail(fs))

(***************************************************************************)
(* ProvenanceHashMap._get_provenance_hash(job), lines 27-101, in world w.  *)
(* st is the memo map and the trace so far; ord[j] is the order in which   *)
(* set(job.dag.dependencies[j].keys()) is iterated.                        *)
(***************************************************************************)
RECURSIVE _get_provenance_hash(_, _, _, _)
RECURSIVE VisitDeps(_, _, _, _, _)

\* A variant that skips an upstream job whose hashing fails (used by a mutant).
RECURSIVE VisitDepsLenient(_, _, _, _, _)
VisitDepsLenient(w, deps, st, ord, acc) ==
    IF deps = <<>> THEN Returns(st, acc)
    ELSE Let(_get_provenance_hash(w, Head(deps), st, ord),
             LAMBDA r : VisitDepsLenient(w, Tail(deps), r.st, ord,
                                         IF r.ok THEN Append(acc, r.val) ELSE acc))

\* Lines 90-93: the generator that sorted() consumes, one upstream job after
\* the other; an exception of a recursive call ends it.
VisitDeps(w, deps, st, ord, acc) ==
    IF deps = <<>> THEN Returns(st, acc)
    ELSE Let(_get_provenance_hash(w, Head(deps), st, ord),
             LAMBDA r : IF r.ok
                        THEN VisitDeps(w, Tail(deps), r.st, ord, Append(acc, r.val))
                        ELSE r)

\* A variant that stores an entry for the job before it visits the upstream
\* jobs, and the final entry after (used by a mutant).
HashDepsAndStoreEarly(w, j, st, ord, h) ==
    Let(VisitDeps(w, ord[j], Store(st, j, hexdigest(h)), ord, <<>>),
        LAMBDA ds : IF ~ds.ok THEN ds
                    ELSE Let(hexdigest(FeedAll(sorted(ds.val), h)),
                             LAMBDA provenance_hash :
                                Returns(Store(ds.st, j, provenance_hash),
                                        provenance_hash)))

\* Lines 89-101: visit the upstream jobs, feed their sorted digests, store.
HashDepsAndStore(w, j, st, ord, h) ==
    Let(VisitDeps(w, ord[j], st, ord, <<>>),
        LAMBDA ds : IF ~ds.ok THEN ds
                    ELSE Let(hexdigest(FeedAll(sorted(ds.val), h)),
                             LAMBDA provenance_hash :
                                Returns(Store(ds.st, j, provenance_hash),
                                        provenance_hash)))

\* Lines 48-87: the job's own determinants, fed to a fresh hash object.
HashOwn(w, j) ==
    LET job == jobs[w][j] IN
    Let(HashDescriptor(job, sha256), LAMBDA h1 :
    IF ~h1.ok THEN [ok |-> FALSE, h |-> <<>>, exc |-> h1.exc, opened |-> <<>>] ELSE
    Let(HashParams(job, h1.h), LAMBDA h2 :
    IF ~h2.ok THEN [ok |-> FALSE, h |-> <<>>, exc |-> h2.exc, opened |-> <<>>] ELSE
    Let(FeedInputs(job.input, dependencies[w][j], files[w], h2.h, <<>>), LAMBDA h3 :
    IF ~h3.ok THEN h3 ELSE [h3 EXCEPT !.h = HashEnv(workflow[w], job, h3.h)])))

_get_provenance_hash(w, j, st, ord) ==
    IF MemoHit(st.hashes, j)
    THEN Returns(Log(Log(st, "enter", j, ""), "hit", j, ""), st.hashes[j])
    ELSE IF TooManyOutputs(jobs[w][j])
    THEN Raises(Log(Log(st, "enter", j, ""), "raise", j, ""), RaiseNamed("WorkflowError"))
    ELSE Let(HashOwn(w, j), LAMBDA own :
         Let(LogOpens(Log(Log(st, "enter", j, ""), "begin", j, ""), j, own.opened),
             LAMBDA st3 :
                IF ~own.ok THEN Raises(Log(st3, "raise", j, ""), own.exc)
                ELSE HashDepsAndStore(w, j, st3, ord, own.h)))

\* The orders in which a set can be iterated.
Orders(S) ==
    {s \in [1..Cardinality(S) -> S] : \A a, b \in DOMAIN s : a # b => s[a] # s[b]}

\* One iteration order for the dependency set of every job of S.
RECURSIVE OrderMaps(_, _)
OrderMaps(deps, S) ==
    IF S = {} THEN {[x \in {} |-> <<>>]}
    ELSE LET j == CHOOSE x \in S : TRUE IN
         {[x \in DOMAIN f \cup {j} |-> IF x = j THEN o ELSE f[x]] :
            f \in OrderMaps(deps, S \ {j}), o \in Orders(DOMAIN deps[j])}

DepOrders(w) == OrderMaps(dependencies[w], Jobs)

Digest(val) == [kind |-> "digest", val |-> val, exc |-> ""]

Raised(exc) == [kind |-> "raise", val |-> <<>>, exc |-> exc]

NoOutcome == [kind |-> "none", val |-> <<>>, exc |-> ""]

\* A variant that leaves out line 24 (used by a mutant).
VersionedWithoutTag(inner, ver) == hexdigest(update(sha256, encode(inner)))

\* Lines 21-25: the hash of the hex text of the inner digest, then __version__.
Versioned(inner, ver) ==
    hexdigest(update(update(sha256, encode(inner)), encode(ver)))

\* ProvenanceHashMap.get_provenance_hash(job), lines 20-25, with memo map
\* memo in world w: the outcome, the memo map afterwards and the trace.
Call(w, j, memo, ord) ==
    Let(_get_provenance_hash(w, j, [hashes |-> memo, trace |-> <<>>], ord), LAMBDA r :
       [out |-> IF r.ok THEN Digest(Versioned(r.val, version[w])) ELSE Raised(r.exc),
        hashes |-> r.st.hashes,
        trace |-> r.st.trace])

\* No thread is in a call, and none has made one.
NoThreads ==
    /\ stack = [t \in Threads |-> <<>>]
    /\ outcome = [t \in Threads |-> NoOutcome]
    /\ calls = [t \in Threads |-> 0]
    /\ called = [t \in Threads |-> ""]
    /\ begun = [t \in Threads |-> [j \in Jobs |-> 0]]
    /\ writes = {}

\* No call was made yet.
NoCall == [w |-> 0, job |-> "", out |-> NoOutcome]

\* ProvenanceHashMap.__init__, line 18.
EmptyMemo == [x \in {} |-> <<>>]

get_provenance_hash(w, j) ==
    \E ord \in DepOrders(w) :
        \E c \in {Call(w, j, hashes[w], ord)} :
        /\ hashes' = [hashes EXCEPT ![w] = c.hashes]
        /\ result' = [w |-> w, job |-> j, out |-> c.out]
        /\ UNCHANGED <<cfgvars, thrvars>>

Init ==
    \E sc \in Scenarios :
        LET c1 == Apply(sc.m1, Base)
            c2 == Apply(sc.m2, c1)
            c == <<c1, c2>>
        IN /\ jobs = [w \in Worlds |-> c[w].jobs]
           /\ dependencies = [w \in Worlds |-> c[w].dependencies]
           /\ files = [w \in Worlds |-> c[w].files]
           /\ workflow = [w \in Worlds |-> c[w].workflow]
           /\ version = [w \in Worlds |-> c[w].version]
           /\ hashes = [w \in Worlds |-> EmptyMemo]
           /\ result = NoCall
           /\ NoThreads

Next == \E w \in Worlds, j \in Jobs : get_provenance_hash(w, j)

Spec == Init /\ [][Next]_vars

(***************************************************************************)
(* A second family of workflows: jobs that differ in what the digest is    *)
(* meant to ignore (threads, names, paths), jobs with no output, every     *)
(* combination of the environment settings, and jobs whose determinants    *)
(* differ while the bytes fed to the hash are the same.                    *)
(***************************************************************************)
\* The two worlds start as workflows c1 and c2, with new engines.
Start(c1, c2) ==
    LET c == <<c1, c2>>
    IN /\ jobs = [w \in Worlds |-> c[w].jobs]
       /\ dependencies = [w \in Worlds |-> c[w].dependencies]
       /\ files = [w \in Worlds |-> c[w].files]
       /\ workflow = [w \in Worlds |-> c[w].workflow]
       /\ version = [w \in Worlds |-> c[w].version]
       /\ hashes = [w \in Worlds |-> EmptyMemo]
       /\ result = NoCall
       /\ NoThreads

\* Lines 82-86: whether workflow.use_conda is set, whether the jobs have a
\* conda environment, whether it names a container image, and whether the jobs
\* name a container image of their own.
EnvCombos == [use_conda : BOOLEAN, env : BOOLEAN, env_img : BOOLEAN, img : BOOLEAN]

\* The workflow cfg with the settings e for every job and the given use_singularity.
WithEnv(cfg, e, use_singularity) ==
    [cfg EXCEPT
        !.workflow = [use_conda |-> e.use_conda, use_singularity |-> use_singularity],
        !.jobs = [j \in Jobs |->
                    [cfg.jobs[j] EXCEPT
                        !.conda_env.present = e.env,
                        !.conda_env.singularity_img_url = IF e.env_img THEN @ ELSE <<>>,
                        !.singularity_img_url = IF e.img THEN @ ELSE <<>>]]]

JobScenarios ==
    {[m1 |-> Mod("no_output", j, ""), m2 |-> NoMod] : j \in {"A", "D"}}
    \cup {[m1 |-> Mod("bad_param", j, ""), m2 |-> NoMod] : j \in {"A", "D"}}
    \cup {[m1 |-> Mod("ext_input", "D", "x.txt"), m2 |-> Mod("bad_param", "D", "")]}
    \cup {[m1 |-> NoMod, m2 |-> Mod(op, j, "")] : op \in {"threads", "rename"}, j \in {"A", "D"}}
    \cup {[m1 |-> NoMod, m2 |-> Mod("rename_output", j, "r.out")] : j \in {"A", "D"}}
    \cup {[m1 |-> Mod("ext_input", "A", "x.txt"), m2 |-> Mod("move_input", "A", "y.txt")]}
    \cup {[m1 |-> NoMod, m2 |-> Mod(op, "A", "")] : op \in {"env_merge", "cmd_absorbs_param"}}

InitJobs ==
    \/ \E sc \in JobScenarios :
          Start(Apply(sc.m1, Base), Apply(sc.m2, Apply(sc.m1, Base)))
    \/ \E e \in EnvCombos :
          Start(WithEnv(Base, e, TRUE), WithEnv(Base, e, FALSE))

SpecJobs == InitJobs /\ [][Next]_vars

(***************************************************************************)
(* A workflow that changes under an engine: between two calls a job of     *)
(* world 2 gets another shell command, another parameter value, a second   *)
(* output or a parameter that cannot be serialised.  World 1 keeps the     *)
(* workflow as it was.                                                     *)
(***************************************************************************)
\* The number of jobs of world 2 that may change.
MaxChanges == 1

Changes ==
    {Mod(op, j, "") : op \in {"text", "multi_output"}, j \in {"A"}}
    \cup {Mod(op, j, "") : op \in {"param_value", "bad_param"}, j \in {"D"}}
    \cup {Mod("text", "B", "")}

\* The jobs of world 2 that are not what they were.
Changed == {j \in Jobs : jobs[2][j] # jobs[1][j]}

change(m) ==
    /\ m.j \notin Changed
    /\ Cardinality(Changed) < MaxChanges
    /\ jobs' = [jobs EXCEPT ![2] = Apply(m, [Base EXCEPT !.jobs = jobs[2]]).jobs]
    /\ UNCHANGED <<dependencies, files, workflow, version, hashes, result, thrvars>>

InitChange == Start(Base, Base)

NextChange ==
    \/ \E w \in Worlds, j \in Jobs : get_provenance_hash(w, j)
    \/ \E m \in Changes : change(m)

SpecChange == InitChange /\ [][NextChange]_vars

(***************************************************************************)
(* Two threads on the engine of world 1.  A thread is in a stack of frames *)
(* of _get_provenance_hash; a step of a thread is what its top frame does  *)
(* up to and including its next read or write of the memo map.  What a     *)
(* frame computes between them is local to it: the workflow is fixed.      *)
(***************************************************************************)
\* The world whose engine the threads share.
Engine == 1

\* The calls of get_provenance_hash the threads make in all.
MaxCalls == 2

\* The workflows the threads run on: a fault is put on one job.
ThreadScenarios ==
    {NoMod, Mod("multi_output", "A", ""), Mod("bad_param", "B", ""), Mod("script", "D", "")}

\* A frame at line 38, and a frame in the generator of lines 90-93: h is the
\* hash object, todo the upstream jobs still to visit, acc the digests so far.
Frame(j) == [job |-> j, pc |-> "check", h |-> <<>>, todo |-> <<>>, acc |-> <<>>]

Top(t) == stack[t][Len(stack[t])]

Callers(t) == SubSeq(stack[t], 1, Len(stack[t]) - 1)

\* The top frame of t returns val (lines 39 and 101): to the generator of the
\* frame below, or to get_provenance_hash (lines 21-25).
Return(t, val) ==
    IF Callers(t) = <<>>
    THEN /\ stack' = [stack EXCEPT ![t] = <<>>]
         /\ outcome' = [outcome EXCEPT ![t] = Digest(Versioned(val, version[Engine]))]
    ELSE /\ stack' = [stack EXCEPT ![t] =
                         [Callers(t) EXCEPT ![Len(Callers(t))].acc = Append(@, val)]]
         /\ UNCHANGED outcome

\* The top frame of t raises exc: no frame catches it.
Raise(t, exc) ==
    /\ stack' = [stack EXCEPT ![t] = <<>>]
    /\ outcome' = [outcome EXCEPT ![t] = Raised(exc)]

\* Thread t calls get_provenance_hash(j).
call(t, j) ==
    /\ stack[t] = <<>>
    /\ calls[1] + calls[2] < MaxCalls
    /\ stack' = [stack EXCEPT ![t] = <<Frame(j)>>]
    /\ calls' = [calls EXCEPT ![t] = @ + 1]
    /\ called' = [called EXCEPT ![t] = j]
    /\ outcome' = [outcome EXCEPT ![t] = NoOutcome]
    /\ begun' = [begun EXCEPT ![t] = [x \in Jobs |-> 0]]
    /\ UNCHANGED <<cfgvars, hashes, result, writes>>

\* Lines 38-87 of the top frame of t: the read of the memo map, and on a miss
\* the output check and the job's own determinants.
check(t) ==
    /\ stack[t] # <<>>
    /\ Top(t).pc = "check"
    /\ LET j == Top(t).job IN
       IF MemoHit(hashes[Engine], j)
       THEN Return(t, hashes[Engine][j]) /\ UNCHANGED begun
       ELSE /\ begun' = [begun EXCEPT ![t][j] = @ + 1]
            /\ IF TooManyOutputs(jobs[Engine][j])
               THEN Raise(t, RaiseNamed("WorkflowError"))
               ELSE \E own \in {HashOwn(Engine, j)} :
                    IF ~own.ok
                    THEN Raise(t, own.exc)
                    ELSE \E ord \in Orders(DOMAIN dependencies[Engine][j]) :
                         /\ stack' = [stack EXCEPT ![t][Len(stack[t])] =
                                         [job |-> j, pc |-> "deps", h |-> own.h,
                                          todo |-> ord, acc |-> <<>>]]
                         /\ UNCHANGED outcome
    /\ UNCHANGED <<cfgvars, hashes, result, calls, called, writes>>

\* Lines 90-93: the generator of the top frame of t calls _get_provenance_hash
\* for the next upstream job.
descend(t) ==
    /\ stack[t] # <<>>
    /\ Top(t).pc = "deps"
    /\ Top(t).todo # <<>>
    /\ stack' = [stack EXCEPT ![t] =
                    Append([stack[t] EXCEPT ![Len(stack[t])].todo = Tail(@)],
                           Frame(Head(Top(t).todo)))]
    /\ UNCHANGED <<cfgvars, hashes, result, outcome, calls, called, begun, writes>>

\* Lines 90-101 once the generator is exhausted: feed the sorted digests,
\* write the memo entry, return the digest.
store(t) ==
    /\ stack[t] # <<>>
    /\ Top(t).pc = "deps"
    /\ Top(t).todo = <<>>
    /\ \E provenance_hash \in {hexdigest(FeedAll(sorted(Top(t).acc), Top(t).h))} :
       \E st \in {Store([hashes |-> hashes[Engine], trace |-> <<>>], Top(t).job,
                        provenance_hash)} :
          /\ hashes' = [hashes EXCEPT ![Engine] = st.hashes]
          /\ writes' = writes \cup {[t |-> t, job |-> Top(t).job,
                                     val |-> st.hashes[Top(t).job]]}
          /\ Return(t, provenance_hash)
    /\ UNCHANGED <<cfgvars, result, calls, called, begun>>

\* A step of thread t inside a call.
step(t) == check(t) \/ descend(t) \/ store(t)

InitThreads == \E m \in ThreadScenarios : Start(Apply(m, Base), Apply(m, Base))

NextThreads ==
    \E t \in Threads :
        \/ \E j \in Jobs : call(t, j)
        \/ check(t)
        \/ descend(t)
        \/ store(t)

SpecThreads == InitThreads /\ [][NextThreads]_vars

(***************************************************************************)
(* One thread alone on the engine: the calls of get_provenance_hash one    *)
(* after the other, step by step, on the base workflow and on every        *)
(* workflow with one fault.  The interpreter goes on with a call that has  *)
(* a step to take.                                                         *)
(***************************************************************************)
InitCall == \E m \in Faults \cup {NoMod} : Start(Apply(m, Base), Apply(m, Base))

NextCall ==
    \/ \E j \in Jobs : call(1, j)
    \/ check(1)
    \/ descend(1)
    \/ store(1)

FairCall == InitCall /\ [][NextCall]_vars /\ WF_vars(step(1))

(***************************************************************************)
(* Vocabulary of the properties.                                           *)
(***************************************************************************)
\* The jobs that job j depends on, directly or through other jobs.
RECURSIVE Ancestors(_, _)
Ancestors(w, j) ==
    LET d == DOMAIN dependencies[w][j] IN d \cup UNION {Ancestors(w, u) : u \in d}

\* The jobs that depend on job j, directly or through other jobs.
Descendants(w, j) == {x \in Jobs : j \in Ancestors(w, x)}

\* Every way that a call of get_provenance_hash(j) can go now in world w, one
\* for each iteration order of the dependency sets.
CallsNow(w, j) == {Call(w, j, hashes[w], ord) : ord \in DepOrders(w)}

\* Every way that the call can go on a new ProvenanceHashMap.
CallsFresh(w, j) == {Call(w, j, EmptyMemo, ord) : ord \in DepOrders(w)}

\* What a call of get_provenance_hash(j) can return or raise now in world w.
Outcomes(w, j) == {c.out : c \in CallsNow(w, j)}

\* The latest call was get_provenance_hash(j) in world w.
Returned(w, j) == result.w = w /\ result.job = j

\* The world that is not w.
Other(w) == 3 - w

IsDigest(o) == o.kind = "digest"

\* Job j has a memo entry in both worlds: it was hashed in both.
HashedInBoth(j) == j \in DOMAIN hashes[1] /\ j \in DOMAIN hashes[2]

\* The same parameter names with equal values, in whatever order.
ParamsEq(p, q) ==
    /\ \A i \in DOMAIN p : \E k \in DOMAIN q : p[i].k = q[k].k /\ PyEq(p[i].v, q[k].v)
    /\ \A k \in DOMAIN q : \E i \in DOMAIN p : p[i].k = q[k].k

\* Job j has the same fields in both worlds, but for the order of its params.
SameJob(j) ==
    /\ [jobs[1][j] EXCEPT !.params = <<>>] = [jobs[2][j] EXCEPT !.params = <<>>]
    /\ ParamsEq(jobs[1][j].params, jobs[2][j].params)

SameGraph == dependencies[1] = dependencies[2]

\* The two worlds have the same graph, files, parameter values and version.
SameInputs ==
    /\ SameGraph
    /\ files[1] = files[2]
    /\ workflow[1] = workflow[2]
    /\ version[1] = version[2]
    /\ \A j \in Jobs : SameJob(j)

\* Two outcomes are the same whenever one of them is a digest.
Agree(o1, o2) == (IsDigest(o1) \/ IsDigest(o2)) => o1 = o2

(***************************************************************************)
(* C1  Determinism.  For the same graph, file contents and parameter       *)
(* values, every call of get_provenance_hash(j) gives the same digest: in  *)
(* every reachable state of the two engines, whatever call for j is made   *)
(* next on either engine, for whatever iteration order of the dependency   *)
(* sets, agrees with every other such call and with the call just made.    *)
(* The two worlds may iterate job.params (and a dict value) in different   *)
(* orders and have hashed other jobs before in different orders.           *)
(***************************************************************************)
C1_Determinism ==
    SameInputs =>
        \A j \in Jobs :
            Let(Outcomes(1, j) \cup Outcomes(2, j), LAMBDA os :
                /\ \A o1, o2 \in os : Agree(o1, o2)
                /\ result.job = j => \A o \in os : Agree(result.out, o))

\* The two engines, whose jobs iterate params in different orders, have
\* different histories: one has hashed D (and so every job), the other has
\* hashed B only, and its call for B has just returned a digest.
C1_Witness ==
    /\ SameInputs
    /\ jobs[1] # jobs[2]
    /\ DOMAIN hashes[1] = Jobs
    /\ DOMAIN hashes[2] = {"A", "B"}
    /\ Returned(2, "B") /\ IsDigest(result.out)

(***************************************************************************)
(* C2  Memoization correctness.  In every reachable state of an engine,    *)
(* whatever its memo map holds from earlier calls, the digest that         *)
(* get_provenance_hash(j) returns now, and the digest it has just          *)
(* returned, is the digest that a new engine with an empty memo map        *)
(* returns for j.                                                          *)
(***************************************************************************)
C2_MemoCorrect ==
    \A w \in Worlds, j \in Jobs :
        Let(CallsNow(w, j), LAMBDA now :
            \A f \in CallsFresh(w, j) :
                /\ \A c \in now : Agree(c.out, f.out)
                /\ Returned(w, j) => Agree(result.out, f.out))

EventsOf(trace, ev) == {i \in DOMAIN trace : trace[i].ev = ev}

\* The memo map holds the shared ancestor A and B but not D: the next call for
\* D returns a digest and takes entries from the memo map on its way.
C2_Witness ==
    /\ DOMAIN hashes[1] = {"A", "B"}
    /\ \E c \in CallsNow(1, "D") :
          /\ IsDigest(c.out)
          /\ {c.trace[i].job : i \in EventsOf(c.trace, "hit")} = {"A", "B"}

(***************************************************************************)
(* C3  Write-once memo.  Whatever call is made in a reachable state, it    *)
(* stores an entry for a job at most once, only for jobs that have no      *)
(* entry yet, and it runs the digest body of a job at most once and never  *)
(* for a job that has an entry; every entry that exists before the call    *)
(* exists unchanged after it.                                              *)
(***************************************************************************)
AtMostOncePerJob(trace, ev) ==
    \A a, b \in EventsOf(trace, ev) : trace[a].job = trace[b].job => a = b

DiffersOnlyInJob(a) ==
    /\ SameGraph
    /\ files[1] = files[2]
    /\ workflow[1] = workflow[2]
    /\ version[1] = version[2]
    /\ \A j \in Jobs \ {a} : jobs[1][j] = jobs[2][j]

\* Some digest returned for job j in world 1 is not the one returned in world 2.
DigestsDiffer(j) ==
    \E o1 \in Outcomes(1, j), o2 \in Outcomes(2, j) :
        IsDigest(o1) /\ IsDigest(o2) /\ o1 # o2

\* No digest returned for job j in world 1 is returned for it in world 2.
NoDigestShared(j) ==
    \A o1 \in Outcomes(1, j), o2 \in Outcomes(2, j) :
        (IsDigest(o1) /\ IsDigest(o2)) => o1 # o2

C4_Transitivity ==
    \A a \in Jobs :
        (DiffersOnlyInJob(a) /\ DigestsDiffer(a)) =>
            \A b \in Descendants(1, a) :
                /\ NoDigestShared(b)
                /\ (result.job = b /\ IsDigest(result.out))
                      => result.out \notin Outcomes(Other(result.w), b)

\* A's digest differs between the worlds and D, two steps downstream and the
\* same job in both, was hashed in both; the latest call returned D's digest.
C4_Witness ==
    /\ DiffersOnlyInJob("A")
    /\ HashedInBoth("A") /\ hashes[1]["A"] # hashes[2]["A"]
    /\ HashedInBoth("D")
    /\ jobs[1]["D"] = jobs[2]["D"]
    /\ result.job = "D" /\ IsDigest(result.out)

(***************************************************************************)
(* What the properties say about a job of a world.                         *)
(***************************************************************************)
\* File f is in the file set that some upstream job contributes to job j.
Supplied(w, j, f) ==
    \E u \in DOMAIN dependencies[w][j] : f \in dependencies[w][j][u]

Inputs(w, j) == {jobs[w][j].input[i] : i \in DOMAIN jobs[w][j].input}

\* The inputs of job j that no upstream job supplies.
ExternalInputs(w, j) == {f \in Inputs(w, j) : ~Supplied(w, j, f)}

\* Job j by itself meets what hashing asks of a job: one output, a shell
\* command, parameter values that json can serialise, external inputs that exist.
WellFormed(w, j) ==
    /\ Len(jobs[w][j].output) = 1
    /\ jobs[w][j].is_shell
    /\ \A i \in DOMAIN jobs[w][j].params : jobs[w][j].params[i].v.ty # "object"
    /\ \A f \in ExternalInputs(w, j) : files[w][f].exists

\* Job j and every job upstream of it are well formed.
Hashable(w, j) == \A k \in {j} \cup Ancestors(w, j) : WellFormed(w, k)

\* The worlds differ in nothing but the content of file f, which exists in both.
DiffersOnlyInContentOf(f) ==
    /\ SameGraph
    /\ jobs[1] = jobs[2]
    /\ workflow[1] = workflow[2]
    /\ version[1] = version[2]
    /\ \A g \in FileNames \ {f} : files[1][g] = files[2][g]
    /\ files[1][f].exists /\ files[2][f].exists
    /\ files[1][f].data # files[2][f].data

(***************************************************************************)
(* C5  External input content is hashed.  A call for a hashable job that   *)
(* has an external input whose file exists returns a digest, and when the  *)
(* worlds differ in the content of that file only, the digest is not one   *)
(* that the other world returns for the job.                               *)
(***************************************************************************)
C5_ExternalHashed ==
    \A j \in Jobs :
        /\ \A w \in Worlds :
              (Hashable(w, j) /\ ExternalInputs(w, j) # {} /\ Returned(w, j))
                  => IsDigest(result.out)
        /\ \A f \in ExternalInputs(1, j) :
              (DiffersOnlyInContentOf(f) /\ Hashable(1, j) /\ result.job = j) =>
                  /\ IsDigest(result.out)
                  /\ result.out \notin Outcomes(Other(result.w), j)

(***************************************************************************)
(* C6  Internal-input exclusion.  No call opens, while hashing a job, an   *)
(* input that an upstream job supplies to that job; and when the worlds    *)
(* differ only in files (content or existence) that are external inputs of *)
(* no job, every call for a job has the same outcome in both.              *)
(***************************************************************************)
FilesThatDiffer == {f \in FileNames : files[1][f] # files[2][f]}

DiffersOnlyInInternalFiles ==
    /\ SameGraph
    /\ jobs[1] = jobs[2]
    /\ workflow[1] = workflow[2]
    /\ version[1] = version[2]
    /\ \A f \in FilesThatDiffer : \A j \in Jobs : f \notin ExternalInputs(1, j)

C6_InternalExcluded ==
    /\ \A w \in Worlds, j \in Jobs : \A c \in CallsNow(w, j) :
          \A i \in EventsOf(c.trace, "open") :
              ~Supplied(w, c.trace[i].job, c.trace[i].f)
    /\ DiffersOnlyInInternalFiles =>
          \A b \in Jobs :
              Let(Outcomes(1, b) \cup Outcomes(2, b), LAMBDA os :
                  /\ \A o1, o2 \in os : o1 = o2
                  /\ result.job = b => result.out \in os)

\* a.out, which A supplies to B, exists in world 1 and not in world 2, and B
\* was hashed in both worlds, in world 2 just now.
C6_Witness ==
    /\ DiffersOnlyInInternalFiles
    /\ files[1]["a.out"].exists /\ ~files[2]["a.out"].exists
    /\ Supplied(1, "B", "a.out")
    /\ HashedInBoth("B")
    /\ Returned(2, "B") /\ IsDigest(result.out)

(***************************************************************************)
(* C7  Versioning.  A returned digest is the hash of the hex text of the   *)
(* job's memo entry followed by the version tag; and when the worlds       *)
(* differ only in the version tag, the memo entries of a job are the same  *)
(* in both (they carry no version) and its returned digests differ.        *)
(***************************************************************************)
DiffersOnlyInVersion ==
    /\ SameGraph
    /\ jobs[1] = jobs[2]
    /\ files[1] = files[2]
    /\ workflow[1] = workflow[2]
    /\ version[1] # version[2]

C7_Versioning ==
    /\ IsDigest(result.out) =>
          /\ result.job \in DOMAIN hashes[result.w]
          /\ result.out.val = hexdigest(hashes[result.w][result.job] \o version[result.w])
    /\ \A w \in Worlds, j \in Jobs : \A c \in CallsNow(w, j) :
          IsDigest(c.out) =>
              /\ j \in DOMAIN c.hashes
              /\ c.out.val = hexdigest(c.hashes[j] \o version[w])
    /\ DiffersOnlyInVersion =>
          \A j \in Jobs :
              /\ HashedInBoth(j) => hashes[1][j] = hashes[2][j]
              /\ NoDigestShared(j)
              /\ (result.job = j /\ IsDigest(result.out))
                    => result.out \notin Outcomes(Other(result.w), j)

\* The worlds differ in the version tag only, D (and so every job) was hashed
\* in both, and the latest call returned the digest of A from its memo entry.
C7_Witness ==
    /\ DiffersOnlyInVersion
    /\ HashedInBoth("D")
    /\ result.job = "A" /\ IsDigest(result.out)

(***************************************************************************)
(* C8  Multi-output error.  A call for a job with more than one output     *)
(* fails with the multi-output error (the WorkflowError of line 42), and   *)
(* a call made for it does nothing but enter the job and raise: no job is  *)
(* begun, no file opened, no upstream job entered, the memo map unchanged. *)
(***************************************************************************)
C8_MultiOutputError ==
    \A w \in Worlds, j \in Jobs :
        (Len(jobs[w][j].output) > 1 /\ Returned(w, j)) =>
            /\ result.out = Raised("WorkflowError")
            /\ \A c \in CallsNow(w, j) :
                  /\ c.out = Raised("WorkflowError")
                  /\ c.trace = <<Event("enter", j, ""), Event("raise", j, "")>>
                  /\ c.hashes = hashes[w]

(***************************************************************************)
(* C9  No partial result on error.  When job J has more than one output,   *)
(* a parameter that cannot be serialised or an external input whose file   *)
(* is missing, or a call for J fails, then for J and every job downstream  *)
(* of J: the memo map holds no entry, the call just made did not return a  *)
(* digest, and whatever call is made next fails when it is for such a job  *)
(* and leaves no entry for any of them.                                    *)
(***************************************************************************)
Faulty(w, j) ==
    \/ Len(jobs[w][j].output) > 1
    \/ \E i \in DOMAIN jobs[w][j].params : jobs[w][j].params[i].v.ty = "object"
    \/ \E f \in ExternalInputs(w, j) : ~files[w][f].exists

\* A call for job j has just failed, or can fail now.
Fails(w, j) ==
    \/ Returned(w, j) /\ result.out.kind = "raise"
    \/ \E o \in Outcomes(w, j) : o.kind = "raise"

\* The jobs that are, or are downstream of, a job that is faulty or fails.
Unhashable(w) ==
    UNION {{j} \cup Descendants(w, j) : j \in {x \in Jobs : Faulty(w, x) \/ Fails(w, x)}}

C9_NoPartialResult ==
    \A w \in Worlds :
        Let(Unhashable(w), LAMBDA bad :
            /\ bad \cap DOMAIN hashes[w] = {}
            /\ (result.w = w /\ result.job \in bad) => result.out.kind = "raise"
            /\ \A x \in Jobs : \A c \in CallsNow(w, x) :
                  /\ x \in bad => c.out.kind = "raise"
                  /\ bad \cap DOMAIN c.hashes = {})

\* C cannot be hashed; the call for D hashed B (and A) first, then failed on C:
\* the memo map holds A and B and nothing for C or D.
C9_Witness ==
    /\ Faulty(1, "C")
    /\ Returned(1, "D") /\ result.out.kind = "raise"
    /\ DOMAIN hashes[1] = {"A", "B"}

(***************************************************************************)
(* C10  Sensitivity.  When the worlds differ in exactly one determinant of *)
(* a hashable job j (its shell command, the value of one parameter, the    *)
(* content of one external input, the container image or the content of    *)
(* its conda environment, the digest of one upstream job), a call for j    *)
(* returns a digest, and not one that the other world returns for j.       *)
(***************************************************************************)
\* The worlds give job j the same fields but for field fld.
SameJobBut(j, fld) ==
    CASE fld = "shellcmd" ->
            [jobs[1][j] EXCEPT !.shellcmd = <<>>] = [jobs[2][j] EXCEPT !.shellcmd = <<>>]
      [] fld = "params" ->
            [jobs[1][j] EXCEPT !.params = <<>>] = [jobs[2][j] EXCEPT !.params = <<>>]
      [] OTHER ->
            [jobs[1][j] EXCEPT !.conda_env = 0] = [jobs[2][j] EXCEPT !.conda_env = 0]

\* Exactly one parameter of job j has another value, all else of the params being equal.
OneParamValueDiffers(j) ==
    LET p == jobs[1][j].params
        q == jobs[2][j].params
    IN /\ Len(p) = Len(q)
       /\ \A i \in DOMAIN p : p[i].k = q[i].k
       /\ Cardinality({i \in DOMAIN p : ~PyEq(p[i].v, q[i].v)}) = 1

\* Exactly one upstream job of j has another digest; j itself is the same.
OneUpstreamDigestDiffers(j) ==
    /\ \A k \in Jobs : k \notin Ancestors(1, j) => jobs[1][k] = jobs[2][k]
    /\ \A u \in DOMAIN dependencies[1][j] :
          \A o \in Outcomes(1, u) \cup Outcomes(2, u) : IsDigest(o)
    /\ Cardinality({u \in DOMAIN dependencies[1][j] : DigestsDiffer(u)}) = 1

OneDeterminantDiffers(j) ==
    \/ /\ DiffersOnlyInJob(j)
       /\ \/ SameJobBut(j, "shellcmd") /\ jobs[1][j].shellcmd # jobs[2][j].shellcmd
          \/ SameJobBut(j, "params") /\ OneParamValueDiffers(j)
          \/ SameJobBut(j, "conda_env") /\ jobs[1][j].conda_env # jobs[2][j].conda_env
    \/ \E f \in ExternalInputs(1, j) : DiffersOnlyInContentOf(f)
    \/ /\ SameGraph /\ files[1] = files[2] /\ workflow[1] = workflow[2]
       /\ version[1] = version[2]
       /\ OneUpstreamDigestDiffers(j)

C10_Sensitivity ==
    \A j \in Jobs :
        (result.job = j /\ Hashable(1, j) /\ Hashable(2, j) /\ OneDeterminantDiffers(j)) =>
            /\ IsDigest(result.out)
            /\ result.out \notin Outcomes(Other(result.w), j)

(***************************************************************************)
(* C11  Output-count precondition.  A call for a job that does not have    *)
(* exactly one output, none as well as several, fails: it returns no       *)
(* digest.                                                                 *)
(***************************************************************************)
C11_OutputCount ==
    \A w \in Worlds, j \in Jobs :
        (Len(jobs[w][j].output) # 1 /\ Returned(w, j)) => result.out.kind = "raise"

(***************************************************************************)
(* C12  Unhashable parameter.  A call for a job that has a parameter value *)
(* json cannot serialise, and that gets as far as its parameters (at most  *)
(* one output, a descriptor that can be read), fails with the              *)
(* unhashable-parameter error: the job gets no memo entry, and the call    *)
(* does nothing but enter the job, begin its digest and raise: it opens no *)
(* input file and enters no upstream job, and leaves the memo map as it    *)
(* was.                                                                    *)
(***************************************************************************)
HasBadParam(w, j) ==
    \E i \in DOMAIN jobs[w][j].params : jobs[w][j].params[i].v.ty = "object"

\* The call for job j gets past lines 41-63.
ReachesParams(w, j) ==
    /\ ~TooManyOutputs(jobs[w][j])
    /\ HashDescriptor(jobs[w][j], sha256).ok

BadParamFailsWith(exc) ==
    \A w \in Worlds, j \in Jobs :
        (HasBadParam(w, j) /\ ReachesParams(w, j) /\ Returned(w, j)) =>
            /\ result.out = Raised(exc)
            /\ j \notin DOMAIN hashes[w]
            /\ \A c \in CallsNow(w, j) :
                  /\ c.out = Raised(exc)
                  /\ c.trace = <<Event("enter", j, ""), Event("begin", j, ""),
                                 Event("raise", j, "")>>
                  /\ c.hashes = hashes[w]

\* C12: the unhashable-parameter error is the TypeError that json.dumps raises
\* and that line 69 lets through (see the comment of line 68).
C12_BadParamTypeError == BadParamFailsWith("TypeError")

\* D has an external input, two upstream jobs and a parameter that cannot be
\* serialised, and the call for D has just failed.
C12_Witness ==
    /\ HasBadParam(2, "D") /\ ReachesParams(2, "D")
    /\ ExternalInputs(2, "D") # {}
    /\ DOMAIN dependencies[2]["D"] # {}
    /\ Returned(2, "D") /\ result.out.kind = "raise"

(***************************************************************************)
(* C13  Missing external input.  A call for a job that has an external     *)
(* input whose file does not exist, and that gets as far as its inputs,    *)
(* fails with the input-read error, the exception that open raises for a   *)
(* file that does not exist; the job gets no memo entry and the call       *)
(* enters no upstream job; and in a world where the external inputs of the *)
(* job exist and the job is hashable, the call returns a digest instead.   *)
(***************************************************************************)
MissingInput(w, j) == \E f \in ExternalInputs(w, j) : ~files[w][f].exists

\* The call for job j gets past lines 41-69.
ReachesInputs(w, j) == ReachesParams(w, j) /\ ~HasBadParam(w, j)

C13_InputReadError ==
    \A w \in Worlds, j \in Jobs :
        (MissingInput(w, j) /\ ReachesInputs(w, j) /\ Returned(w, j)) =>
            /\ result.out = Raised("FileNotFoundError")
            /\ j \notin DOMAIN hashes[w]
            /\ \A c \in CallsNow(w, j) :
                  /\ \A i \in EventsOf(c.trace, "enter") : c.trace[i].job = j
                  /\ c.hashes = hashes[w]
            /\ \A v \in Worlds :
                  (Hashable(v, j) /\ ExternalInputs(v, j) # {}) =>
                      \A o \in Outcomes(v, j) : IsDigest(o) /\ o # result.out

(***************************************************************************)
(* The determinants of a job, as the properties name them.                 *)
(***************************************************************************)
\* The execution descriptor: its kind and its text.
DescriptorOf(w, j) ==
    LET job == jobs[w][j] IN
    IF job.is_shell THEN [kind |-> "shell", text |-> job.shellcmd]
    ELSE IF job.is_script THEN [kind |-> "script", text |-> job.source]
    ELSE IF job.is_wrapper THEN [kind |-> "wrapper", text |-> job.source]
    ELSE [kind |-> "none", text |-> <<>>]

\* The environment in use: the conda environment when conda is used and the
\* job has one, with its container image when containers are used; else the
\* job's own container image when containers are used; else nothing.
EnvDescriptor(w, j) ==
    LET job == jobs[w][j]
        wf == workflow[w]
    IN IF wf.use_conda /\ job.conda_env.present
       THEN [kind |-> "conda",
             img |-> IF wf.use_singularity THEN job.conda_env.singularity_img_url ELSE <<>>,
             content |-> job.conda_env.content]
       ELSE IF wf.use_singularity /\ job.singularity_img_url # <<>>
       THEN [kind |-> "container", img |-> job.singularity_img_url, content |-> <<>>]
       ELSE [kind |-> "none", img |-> <<>>, content |-> <<>>]

\* The files of the external inputs of job j, in the order of job.input.
ExternalContents(w, j) ==
    LET ext == SelectSeq(jobs[w][j].input, LAMBDA f : ~Supplied(w, j, f))
    IN [i \in DOMAIN ext |-> files[w][ext[i]]]

\* The same upstream jobs in both worlds, each with the same outcomes.
UpstreamAgrees(j) ==
    /\ DOMAIN dependencies[1][j] = DOMAIN dependencies[2][j]
    /\ \A u \in DOMAIN dependencies[1][j] : Outcomes(1, u) = Outcomes(2, u)

\* Job j has in both worlds the same descriptor, parameters, external input
\* contents, environment and upstream outcomes (and as many outputs, under the
\* same version tag); its threads, its name, the names of its files may differ.
AgreeOnDeterminants(j) ==
    /\ version[1] = version[2]
    /\ Len(jobs[1][j].output) = Len(jobs[2][j].output)
    /\ DescriptorOf(1, j) = DescriptorOf(2, j)
    /\ ParamsEq(jobs[1][j].params, jobs[2][j].params)
    /\ ExternalContents(1, j) = ExternalContents(2, j)
    /\ EnvDescriptor(1, j) = EnvDescriptor(2, j)
    /\ UpstreamAgrees(j)

(***************************************************************************)
(* C14  Insensitivity.  When job j agrees in both worlds on descriptor,    *)
(* parameters, external input contents, environment in use and upstream    *)
(* digests, every call for j has the same outcome in both worlds, whatever *)
(* the threads, the name, the output file name and the path names of the   *)
(* external inputs of j are in each.                                       *)
(***************************************************************************)
C14_Insensitivity ==
    \A j \in Jobs :
        AgreeOnDeterminants(j) =>
            Let(Outcomes(1, j) \cup Outcomes(2, j), LAMBDA os :
                /\ \A o1, o2 \in os : o1 = o2
                /\ result.job = j => result.out \in os)

\* A has other threads in world 2 than in world 1 and agrees on all
\* determinants; it was hashed in both worlds and its digest was just returned.
C14_Witness ==
    /\ jobs[1]["A"].threads # jobs[2]["A"].threads
    /\ AgreeOnDeterminants("A")
    /\ HashedInBoth("A")
    /\ result.job = "A" /\ IsDigest(result.out)

(***************************************************************************)
(* C16  Post-order fill.  In every reachable state, also after a failed    *)
(* call, the memo map is closed under upstream dependencies; whatever call *)
(* is made, it stores the entry of a job only when every job in            *)
(* dag.dependencies[job] has an entry, from before the call or stored      *)
(* earlier in it, and it leaves the memo map closed; and after a call that *)
(* returned a digest the memo map holds an entry for the job and for every *)
(* job upstream of it, directly or through other jobs.                     *)
(***************************************************************************)
Closed(w, memo) ==
    \A j \in DOMAIN memo : DOMAIN dependencies[w][j] \subseteq DOMAIN memo

\* The jobs that have an entry before event i of the trace of a call in world w.
HashedBefore(w, trace, i) ==
    DOMAIN hashes[w] \cup {trace[k].job : k \in {x \in EventsOf(trace, "store") : x < i}}

C16_PostOrder ==
    \A w \in Worlds :
        /\ Closed(w, hashes[w])
        /\ (result.w = w /\ IsDigest(result.out)) =>
              ({result.job} \cup Ancestors(w, result.job)) \subseteq DOMAIN hashes[w]
        /\ \A j \in Jobs : \A c \in CallsNow(w, j) :
              /\ Closed(w, c.hashes)
              /\ IsDigest(c.out) => ({j} \cup Ancestors(w, j)) \subseteq DOMAIN c.hashes
              /\ \A i \in EventsOf(c.trace, "store") :
                    DOMAIN dependencies[w][c.trace[i].job]
                        \subseteq HashedBefore(w, c.trace, i)

\* B cannot be hashed; the call for D hashed C (and A) first, then failed on B:
\* the memo map holds A and C, which is closed.
C16_Witness ==
    /\ Faulty(1, "B")
    /\ Returned(1, "D") /\ result.out.kind = "raise"
    /\ DOMAIN hashes[1] = {"A", "C"}

(***************************************************************************)
(* C17  Environment descriptor precedence.  The memo entry of every hashed *)
(* job is the digest of: what lines 51-79 feed, then the environment       *)
(* bytes, then the sorted entries of its upstream jobs; where the          *)
(* environment bytes are the container image of the conda environment then *)
(* its content when conda is used, the job has an environment, it names an *)
(* image and containers are used; the content alone when conda is used and *)
(* the job has an environment otherwise; the job's own container image     *)
(* when that is not so, containers are used and the job names an image;    *)
(* and nothing otherwise.  The initial states hold every combination of    *)
(* the two flags and the three presences.                                  *)
(***************************************************************************)
EnvBytes(w, j) ==
    LET job == jobs[w][j]
        wf == workflow[w]
        active == wf.use_conda /\ job.conda_env.present
    IN IF active /\ job.conda_env.singularity_img_url # <<>> /\ wf.use_singularity
       THEN job.conda_env.singularity_img_url \o job.conda_env.content
       ELSE IF active
       THEN job.conda_env.content
       ELSE IF wf.use_singularity /\ job.singularity_img_url # <<>>
       THEN job.singularity_img_url
       ELSE <<>>

\* What lines 51-79 feed for job j: descriptor, parameters, external inputs.
FedBeforeEnv(w, j) ==
    LET job == jobs[w][j] IN
    FeedInputs(job.input, dependencies[w][j], files[w],
               HashParams(job, HashDescriptor(job, sha256).h).h, <<>>).h

\* The memo entries of the upstream jobs of job j, in some order.
UpstreamEntries(w, j) ==
    LET o == (CHOOSE ord \in DepOrders(w) : TRUE)[j]
    IN [i \in DOMAIN o |-> hashes[w][o[i]]]

C17_EnvPrecedence ==
    \A w \in Worlds : \A j \in DOMAIN hashes[w] :
        hashes[w][j] =
            hexdigest(FeedAll(SortedStrs(UpstreamEntries(w, j)),
                              FedBeforeEnv(w, j) \o EnvBytes(w, j)))

\* Conda is not used and containers are: D, whose conda environment names an
\* image and which names an image of its own, was hashed with its own image.
C17_Witness ==
    /\ ~workflow[1].use_conda /\ workflow[1].use_singularity
    /\ jobs[1]["D"].conda_env.present
    /\ jobs[1]["D"].conda_env.singularity_img_url # <<>>
    /\ jobs[1]["D"].singularity_img_url # <<>>
    /\ "D" \in DOMAIN hashes[1]
    /\ Returned(1, "D")

(***************************************************************************)
(* C18  Unambiguous encoding.  When job j differs between the worlds in    *)
(* its descriptor (kind or text), its parameters, its external input       *)
(* contents, its environment in use or the digests of its upstream jobs,   *)
(* under the same version tag, a digest returned for j in one world is not *)
(* returned for j in the other.                                            *)
(***************************************************************************)
DeterminantsDiffer(j) ==
    \/ DescriptorOf(1, j) # DescriptorOf(2, j)
    \/ ~ParamsEq(jobs[1][j].params, jobs[2][j].params)
    \/ ExternalContents(1, j) # ExternalContents(2, j)
    \/ EnvDescriptor(1, j) # EnvDescriptor(2, j)
    \/ ~UpstreamAgrees(j)

C18_Unambiguous ==
    \A j \in Jobs :
        (/\ result.job = j /\ IsDigest(result.out)
         /\ version[1] = version[2]
         /\ DeterminantsDiffer(j))
            => result.out \notin Outcomes(Other(result.w), j)

(***************************************************************************)
(* C20  Memo hit has no effect.  Whatever call is made for a job that has  *)
(* a memo entry, whatever the job and its inputs are by now, it returns    *)
(* the hash of the entry and the version tag, leaves the memo map as it    *)
(* is, and does nothing but enter the job and find the entry: no check of  *)
(* the job, no file opened, no upstream job entered.  So the digest is the *)
(* one of the job as it was when it was hashed first.                      *)
(***************************************************************************)
C20_MemoHit ==
    \A w \in Worlds : \A j \in DOMAIN hashes[w] :
        /\ Returned(w, j) => result.out = Digest(hexdigest(hashes[w][j] \o version[w]))
        /\ \A c \in CallsNow(w, j) :
              /\ c.out = Digest(hexdigest(hashes[w][j] \o version[w]))
              /\ c.hashes = hashes[w]
              /\ c.trace = <<Event("enter", j, ""), Event("hit", j, "")>>

\* A was hashed in world 2 and then got a second output: a new engine fails
\* for it, but the call just made returned the digest of A as it was, which
\* is the digest world 1 returns.
C20_Witness ==
    /\ TooManyOutputs(jobs[2]["A"])
    /\ \A c \in CallsFresh(2, "A") : c.out.kind = "raise"
    /\ Returned(2, "A") /\ IsDigest(result.out)
    /\ result.out \in Outcomes(1, "A")

(***************************************************************************)
(* C19  Concurrent calls on one engine.  Two threads interleave their      *)
(* calls on the engine of world 1, each read and each write of the memo    *)
(* map being one step.  Every value a thread writes for a job is the entry *)
(* a single-threaded engine computes for the job, every entry of the memo  *)
(* map is that entry, and every call that has finished returned or raised  *)
(* what a single-threaded call for its job returns or raises.              *)
(***************************************************************************)
Finished(t) == stack[t] = <<>> /\ outcome[t] # NoOutcome

\* What a single-threaded call on a new engine does, for every job and every
\* iteration order.
FreshCalls ==
    UNION {{[job |-> j, out |-> c.out, hashes |-> c.hashes] : c \in CallsFresh(Engine, j)} :
             j \in Jobs}

C19_ConcurrentCalls ==
    \A fresh \in {FreshCalls} :
        /\ \A wr \in writes : \A c \in fresh :
              c.job = wr.job => IsDigest(c.out) /\ wr.val = c.hashes[wr.job]
        /\ \A j \in DOMAIN hashes[Engine] : \A c \in fresh :
              c.job = j => hashes[Engine][j] = c.hashes[j]
        /\ \A t \in Threads :
              Finished(t) => outcome[t] \in {c.out : c \in {x \in fresh : x.job = called[t]}}

\* Both threads were asked for D and both returned its digest; each of them
\* computed and wrote the entries of A and of D.
C19_Witness ==
    /\ \A t \in Threads : Finished(t) /\ called[t] = "D" /\ IsDigest(outcome[t])
    /\ \A j \in {"A", "D"} : \A t \in Threads : \E wr \in writes : wr.t = t /\ wr.job = j

(***************************************************************************)
(* C15  Termination.  On the acyclic graph of the workflow, whatever job a *)
(* thread calls get_provenance_hash for, the call eventually finishes: it  *)
(* returns a digest or raises.  And no call goes past the memo check of a  *)
(* job more than once, also when the job is upstream of the called job     *)
(* through several paths.                                                  *)
(***************************************************************************)
C15_Termination ==
    /\ \A t \in Threads : (stack[t] # <<>>) ~> Finished(t)
    /\ [](\A t \in Threads : \A j \in Jobs : begun[t][j] <= 1)

\* Thread 1 was asked for D and returned its digest, having computed and
\* written the entry of every job itself: A, which is upstream of D through B
\* and through C, once.
C15_Witness ==
    /\ Finished(1) /\ called[1] = "D" /\ IsDigest(outcome[1])
    /\ \A j \in Jobs : \E wr \in writes : wr.t = 1 /\ wr.job = j
    /\ begun[1]["A"] = 1
    /\ {"B", "C"} \subseteq Descendants(Engine, "A") \cap DOMAIN dependencies[Engine]["D"]

====
